---- MODULE Spec2Model ----
(***************************************************************************)
(* jdklib: detection of installed JDKs, the result cache and the default   *)
(* selection.  The repository holds three generations of the library:      *)
(*   "legacy"  detect(opts) with one module-level cache object             *)
(*             (src/src/index.js 196-429),                                 *)
(*   "gawk"    detect()/processJDKs() over appc.detect.scan with a map of  *)
(*             GawkArrays keyed by the hash of the paths                   *)
(*             (src/src/index.js 431-825),                                 *)
(*   "engine"  processResults() called by appc.detect.Engine               *)
(*             (src/unnamed/part_001).                                     *)
(* A behaviour runs one of them; impl is chosen in Init and never changes. *)
(* SpecLegacy, SpecGawk and SpecEngine are the behaviours of one           *)
(* generation each, Spec those of all of them.  Of the engine generation   *)
(* the model has processResults(), applied to the arrays of records the    *)
(* engine can hand to it.                                                  *)
(***************************************************************************)
EXTENDS Integers, Sequences, FiniteSets, TLC

VARIABLES
    impl,       \* which generation of the library this behaviour runs
    fs,         \* directory -> what the directory holds
    envPATH,    \* directories D whose D/bin is an entry of process.env.PATH
    recs,       \* heap of JDK record objects: slot -> record, NoRec when free
    scanCache,  \* appc.detect's cache: hash of the paths -> record ids found
    scanned,    \* the hashes that have an entry in appc.detect's cache
    cache,      \* hash of the paths -> GawkArray id (0: no entry)
    cols,       \* heap of GawkArray objects: id -> _value (record ids)
    legacyCache,    \* the legacy generation's cache: a results object id, 0 for null
    legacyResults,  \* heap of the legacy results objects: id -> [jdks, home]
    defaultPath,    \* engine.defaultPath of the engine generation, "" when unset
    resolvedTo, \* requested directories -> how the calls for them were
                \* answered since the last reset: hash and GawkArray
    envChanges, \* how many times the host changed so far
    call,       \* the detect() call in flight or just settled
    probe,      \* the probe of one directory: its target, position and outcome
    watchers,   \* record object -> the subscribers bound to it (_watchers)
    pathSet,    \* process.env.PATH is defined
    session,    \* the watch() session: its handle, its timers and its events
    pair,       \* two detect() calls of the legacy generation that overlap
    caller,     \* a caller of the engine generation: its options object, the
                \* calls it made and the watches there are
    registry    \* scanRegistry() of the engine generation: the registry, the
                \* lookups that are pending and the results so far

vars == <<impl, fs, envPATH, recs, scanCache, scanned, cache, cols, legacyCache,
          legacyResults, defaultPath, resolvedTo, envChanges, call, probe, watchers,
          pathSet, session, pair, caller, registry>>

\* detect() and its caches
coreVars == <<impl, fs, envPATH, recs, scanCache, scanned, cache, cols, legacyCache,
              legacyResults, defaultPath, resolvedTo, envChanges, call>>
\* what a detect() call leaves alone
extVars == <<probe, watchers, pathSet, session, pair, caller, registry>>

-----------------------------------------------------------------------------
(* Bounds of the model *)

MaxRecs == 4          \* JDK record objects alive at one time
MaxCols == 2          \* GawkArray (legacy: results) objects allocated in one behaviour
MaxPathsLen == 2      \* length of opts.paths
MaxEnvChanges == 1    \* changes of the filesystem and of PATH in one behaviour
MaxFsEvents == 2      \* changes of the host during one watch session
MaxCalls == 3         \* calls of one caller of the engine generation
MaxStops == 2         \* calls of stop() on one watch handle

-----------------------------------------------------------------------------
(* The host: directories and what they hold *)

PlatformDir == "/usr/lib/jvm"
OtherDir == "/opt/jdk"
Dirs == {OtherDir, PlatformDir}

Empty == [kind |-> "empty", version |-> <<>>, build |-> 0, architecture |-> "none"]
Install(v, b, a) == [kind |-> "jdk", version |-> v, build |-> b, architecture |-> a]

Installs == { Install(<<1, 8, 0>>, 92, "64bit"),
              Install(<<1, 8, 0>>, 92, "32bit"),
              Install(<<1, 8, 0>>, 45, "64bit"),
              Install(<<1, 10, 0>>, 5, "64bit") }

Contents == Installs \cup {Empty}

-----------------------------------------------------------------------------
(* JavaScript values of opts.paths *)

Str(s) == [type |-> "string", val |-> s]
Num(n) == [type |-> "number", val |-> n]

Elems == {Str(d) : d \in Dirs} \cup {Str(""), Num("123"), Num("0")}

IsString(e) == e.type = "string"
\* JavaScript truthiness: '' and 0 are falsy, every other value here is truthy
Truthy(e) == e.val \notin {"", "0"}

SeqsUpTo(S, n) == UNION {[1..k -> S] : k \in 0..n}
PathInputs == SeqsUpTo(Elems, MaxPathsLen)

RECURSIVE SelectTruthy(_)
SelectTruthy(s) ==
    IF s = <<>> THEN <<>>
    ELSE IF Truthy(Head(s)) THEN <<Head(s)>> \o SelectTruthy(Tail(s))
    ELSE SelectTruthy(Tail(s))

\* getPlatformPaths() on linux
GetPlatformPaths == <<Str(PlatformDir)>>

\* the platform paths are searched whatever opts.ignorePlatformPaths says
CandidatePathsWithPlatform(ignorePlatformPaths, paths) ==
    SelectTruthy(GetPlatformPaths \o paths)
\* platformPaths.concat(opts.paths).filter(p => p)
CandidatePaths(ignorePlatformPaths, paths) ==
    SelectTruthy((IF ignorePlatformPaths THEN <<>> ELSE GetPlatformPaths) \o paths)

-----------------------------------------------------------------------------
(* appc.detect.getPaths: validation, de-duplication, deterministic order *)

PathsValid(cands) == \A i \in 1..Len(cands) : IsString(cands[i])

\* the order of the two names as strings
DirOrder(d) == IF d = OtherDir THEN 1 ELSE 2

RECURSIVE SortDirs(_)
SortDirs(S) ==
    IF S = {} THEN <<>>
    ELSE LET m == CHOOSE d \in S : \A e \in S : DirOrder(d) <= DirOrder(e)
         IN  <<m>> \o SortDirs(S \ {m})

StringsOf(cands) == [i \in 1..Len(cands) |-> cands[i].val]
Members(cands) == {cands[i].val : i \in 1..Len(cands)}

GetPaths(cands) == SortDirs(Members(cands))

\* a hash of the number of paths only
PathsHashOfLength(paths) == IF paths = <<>> THEN <<>> ELSE <<OtherDir>>
\* appc.util.sha1(JSON.stringify(paths)): injective on arrays of strings
PathsHash(paths) == paths

KeyList == <<SortDirs({}), SortDirs({OtherDir}), SortDirs({PlatformDir}), SortDirs(Dirs)>>
Keys == {KeyList[i] : i \in 1..Len(KeyList)}

-----------------------------------------------------------------------------
(* The prober: new JDK(dir).init() behind isJDK(dir) *)

NoRec == [path |-> "", version |-> <<>>, build |-> 0, architecture |-> "none",
          default |-> FALSE]

\* JDK constructor and init(): the record of the JDK in dir
NewJDK(dir) ==
    [path |-> dir, version |-> fs[dir].version, build |-> fs[dir].build,
     architecture |-> fs[dir].architecture, default |-> FALSE]

\* isJDK(dir): zero or one record; every failure becomes "not found"
IsJDK(dir) == IF fs[dir].kind = "jdk" THEN <<NewJDK(dir)>> ELSE <<>>

\* detectFn over the paths, in order: the records found
RECURSIVE ProbeAll(_)
ProbeAll(paths) ==
    IF paths = <<>> THEN <<>> ELSE IsJDK(Head(paths)) \o ProbeAll(Tail(paths))

-----------------------------------------------------------------------------
(* The heap of record objects *)

Slots == 1..MaxRecs

Range(s) == {s[i] : i \in 1..Len(s)}
Front(s) == SubSeq(s, 1, Len(s) - 1)
Last(s) == s[Len(s)]

\* the slots some cache entry or some GawkArray refers to
Referenced(sc, cs) ==
    UNION {Range(sc[k]) : k \in Keys} \cup UNION {Range(cs[c]) : c \in 1..Len(cs)}

RECURSIVE Ascending(_)
Ascending(S) ==
    IF S = {} THEN <<>>
    ELSE LET m == CHOOSE x \in S : \A y \in S : x <= y
         IN  <<m>> \o Ascending(S \ {m})

FreeSlots == Ascending({r \in Slots : recs[r] = NoRec})

(* The garbage collector.  A record nothing refers to any more is dropped, *)
(* and the records that stay are moved to the first slots, in the order in *)
(* which the GawkArrays and then the cache entries refer to them.          *)
RECURSIVE Flatten(_)
Flatten(ss) == IF ss = <<>> THEN <<>> ELSE Head(ss) \o Flatten(Tail(ss))

RECURSIVE Dedup(_)
Dedup(s) ==
    IF s = <<>> THEN <<>>
    ELSE IF Last(s) \in Range(Front(s)) THEN Dedup(Front(s))
         ELSE Append(Dedup(Front(s)), Last(s))

RefOrder(sc, cs) == Dedup(Flatten(cs) \o Flatten([i \in 1..Len(KeyList) |-> sc[KeyList[i]]]))

Moved(order, r) == CHOOSE i \in 1..Len(order) : order[i] = r

Collect(R, sc, cs) ==
    LET order == RefOrder(sc, cs)
        mv(s) == [i \in 1..Len(s) |-> Moved(order, s[i])]
    IN  [recs      |-> [r \in Slots |-> IF r <= Len(order) THEN R[order[r]] ELSE NoRec],
         scanCache |-> [k \in Keys |-> mv(sc[k])],
         cols      |-> [c \in 1..Len(cs) |-> mv(cs[c])]]

(* appc.detect.scan({ paths, force, detectFn }): paths scanned before are  *)
(* answered from the cache with the record objects found then, unless      *)
(* force is set; otherwise every directory is probed and the new record    *)
(* objects are cached under the hash of the paths.                         *)
Scan(paths, force) ==
    IF paths \in scanned /\ ~force
    THEN [recs |-> recs, scanCache |-> scanCache, scanned |-> scanned,
          results |-> scanCache[paths], probes |-> 0, room |-> TRUE]
    ELSE LET found == ProbeAll(paths)
             room  == Len(found) <= Len(FreeSlots)
             ids   == [i \in 1..Len(found) |-> IF room THEN FreeSlots[i] ELSE 0]
         IN  [recs      |-> [r \in Slots |->
                                IF \E i \in 1..Len(ids) : ids[i] = r
                                THEN found[CHOOSE i \in 1..Len(ids) : ids[i] = r]
                                ELSE recs[r]],
              scanCache |-> [scanCache EXCEPT ![paths] = ids],
              scanned   |-> scanned \cup {paths},
              results   |-> ids,
              probes    |-> Len(paths),
              room      |-> room]
-----------------------------------------------------------------------------
(* Ordering of records *)

Sign(n) == IF n < 0 THEN -1 ELSE IF n > 0 THEN 1 ELSE 0

\* appc.version.compare: numeric, segment by segment; a missing segment is 0
RECURSIVE VersionCompare(_, _)
VersionCompare(a, b) ==
    IF a = <<>> /\ b = <<>> THEN 0
    ELSE LET x == IF a = <<>> THEN 0 ELSE Head(a)
             y == IF b = <<>> THEN 0 ELSE Head(b)
         IN  IF x # y THEN Sign(x - y)
             ELSE VersionCompare(IF a = <<>> THEN a ELSE Tail(a),
                                 IF b = <<>> THEN b ELSE Tail(b))

\* String.prototype.localeCompare on the architecture names
LocaleCompare(a, b) == IF a = b THEN 0 ELSE IF a = "32bit" THEN -1 ELSE 1

\* the comparator of processJDKs
CompareJDKs(a, b) ==
    LET r == VersionCompare(a.version, b.version) IN
    IF r # 0 THEN r
    ELSE IF a.build > b.build THEN -1 ELSE IF a.build < b.build THEN 1 ELSE 0

\* Array.prototype.sort with the comparator of processJDKs (arrays of at
\* most ten elements: insertion sort, which is stable)
RECURSIVE InsertJDK(_, _, _)
InsertJDK(R, x, s) ==
    IF s = <<>> THEN <<x>>
    ELSE IF CompareJDKs(R[Last(s)], R[x]) <= 0 THEN s \o <<x>>
    ELSE InsertJDK(R, x, Front(s)) \o <<Last(s)>>

RECURSIVE SortJDKs(_, _)
SortJDKs(R, s) ==
    IF s = <<>> THEN <<>> ELSE InsertJDK(R, Last(s), SortJDKs(R, Front(s)))

-----------------------------------------------------------------------------
(* processJDKs(jdks, paths) *)

\* systemPaths: the real paths of the entries of process.env.PATH
SystemPaths == envPATH

\* systemPaths[path.dirname(javac)]: javac is <path>/bin/javac
OnSystemPath(r) == r.path \in SystemPaths

\* index of the record the loop marks when it finds javac on the system
\* path (the first one; foundDefault ends the search), 0 when there is none
FirstOnSystemPath(R, jdks) ==
    IF \E i \in 1..Len(jdks) : OnSystemPath(R[jdks[i]])
    THEN CHOOSE i \in 1..Len(jdks) :
            /\ OnSystemPath(R[jdks[i]])
            /\ \A j \in 1..(i - 1) : ~OnSystemPath(R[jdks[j]])
    ELSE 0

\* the record that gets set('default', true): the first one on the system
\* path, else the last one; 0 for an empty array
DefaultIndex(R, jdks) ==
    IF FirstOnSystemPath(R, jdks) # 0 THEN FirstOnSystemPath(R, jdks) ELSE Len(jdks)

\* the loop and the fallback write one record and no other
SetDefault(R, jdks) ==
    IF DefaultIndex(R, jdks) = 0 THEN R
    ELSE [R EXCEPT ![jdks[DefaultIndex(R, jdks)]].default = TRUE]

\* a new GawkArray for every call
TargetArrayAlwaysNew(hash) == Len(cols) + 1
\* if (!cache[hash]) cachedValue = cache[hash] = new GawkArray
TargetArray(hash) == IF cache[hash] = 0 THEN Len(cols) + 1 ELSE cache[hash]

ProcessJDKs(R, jdks, paths) ==
    LET hash   == PathsHash(paths)
        sorted == SortJDKs(R, jdks)
        target == TargetArray(hash)
    IN  [recs  |-> SetDefault(R, sorted),
         cache |-> [cache EXCEPT ![hash] = target],
         cols  |-> IF target > Len(cols) THEN Append(cols, sorted)
                   ELSE [cols EXCEPT ![target] = sorted],
         col   |-> target]

\* GawkArray.toJS(): a plain copy of the records' values
ToJS(R, ids) == [i \in 1..Len(ids) |-> R[ids[i]]]

-----------------------------------------------------------------------------
(* What a call was asked for, as the caller sees it *)

\* the directories a call names: the non-empty strings of opts.paths, and
\* the platform's directory unless it is ignored
Requested(ignorePlatformPaths, paths) ==
    {paths[i].val : i \in {j \in 1..Len(paths) : IsString(paths[j]) /\ paths[j].val # ""}}
        \cup (IF ignorePlatformPaths THEN {} ELSE {PlatformDir})

HasNonString(paths) == \E i \in 1..Len(paths) : ~IsString(paths[i])

\* opts.paths is one or more '' and the platform paths are ignored
OnlyEmptyStrings(ignorePlatformPaths, paths) ==
    ignorePlatformPaths /\ paths # <<>> /\ \A i \in 1..Len(paths) : paths[i] = Str("")

NoCall ==
    [op |-> "none", status |-> "none", members |-> {}, nonString |-> FALSE,
     onlyEmpty |-> FALSE, reset |-> -1,
     force |-> FALSE, gawk |-> FALSE, inOrder |-> TRUE, paths |-> <<>>, col |-> 0,
     value |-> <<>>, probes |-> 0]

Pending == call.status = "pending"

-----------------------------------------------------------------------------
(* detect(opts) of the gawk generation *)

(* The head of the promise chain: platform paths, filter and                *)
(* appc.detect.getPaths.  opts.force and opts.gawk are read later, when the *)
(* chain gets to scan() and to the value it resolves with.                 *)
GawkDetect(paths, ignorePlatformPaths) ==
    /\ impl = "gawk"
    /\ ~Pending
    /\ LET cands == CandidatePaths(ignorePlatformPaths, paths)
           c     == [NoCall EXCEPT !.op = "detect",
                                   !.reset = IF call.op = "resetCache" THEN call.reset
                                             ELSE -1,
                                   !.members = Requested(ignorePlatformPaths, paths),
                                   !.nonString = HasNonString(paths),
                                   !.onlyEmpty = OnlyEmptyStrings(ignorePlatformPaths, paths),
                                   !.inOrder = (StringsOf(cands) = GetPaths(cands))]
       IN  call' = IF PathsValid(cands)
                   THEN [c EXCEPT !.status = "pending", !.paths = GetPaths(cands)]
                   ELSE [c EXCEPT !.status = "rejected"]  \* TypeError
    /\ UNCHANGED extVars
    /\ UNCHANGED <<impl, fs, envPATH, recs, scanCache, scanned, cache, cols,
                   legacyCache, legacyResults, defaultPath, resolvedTo, envChanges>>

\* the rest of the chain: scan, processJDKs, and the value handed to the caller
GawkScanned(force, gawk) ==
    /\ impl = "gawk"
    /\ Pending /\ call.op = "detect"
    /\ LET sc == Scan(call.paths, force)
           pj == ProcessJDKs(sc.recs, sc.results, call.paths)
           gc == Collect(pj.recs, sc.scanCache, pj.cols)
       IN  /\ sc.room
           /\ pj.col <= MaxCols
           /\ recs' = gc.recs
           /\ scanCache' = gc.scanCache
           /\ scanned' = sc.scanned
           /\ cache' = pj.cache
           /\ cols' = gc.cols
           /\ resolvedTo' = [resolvedTo EXCEPT ![call.members] = @ \cup
                                {[hash |-> PathsHash(call.paths), col |-> pj.col]}]
           /\ call' = [call EXCEPT !.status = "resolved", !.col = pj.col,
                                   !.force = force, !.gawk = gawk,
                                   !.value = ToJS(pj.recs, pj.cols[pj.col]),
                                   !.probes = sc.probes]
    /\ UNCHANGED extVars
    /\ UNCHANGED <<impl, fs, envPATH, legacyCache, legacyResults, defaultPath,
                   envChanges>>

\* the entries of the cache are kept
ClearedCacheKept == cache
\* for (const key of Object.keys(cache)) delete cache[key]
ClearedCache == [k \in Keys |-> 0]

\* resetCache(): every entry of the cache is deleted, appc.detect's too;
\* next is what is recorded of the call
ResetCacheAnd(next) ==
    /\ impl = "gawk"
    /\ ~Pending
    /\ LET gc == Collect(recs, [k \in Keys |-> <<>>], cols)
       IN  /\ recs' = gc.recs
           /\ scanCache' = gc.scanCache
           /\ cols' = gc.cols
    /\ cache' = ClearedCache
    /\ scanned' = {}
    /\ resolvedTo' = [S \in SUBSET Dirs |-> {}]
    /\ call' = next
    /\ UNCHANGED extVars
    /\ UNCHANGED <<impl, fs, envPATH, legacyCache, legacyResults, defaultPath,
                   envChanges>>

ResetCache == ResetCacheAnd(NoCall)

\* resetCache() where the call that follows it is told how many entries
\* the reset deleted
ResetCacheCounted ==
    ResetCacheAnd([NoCall EXCEPT !.op = "resetCache",
                                 !.reset = Cardinality({k \in Keys : cache[k] # 0})])

-----------------------------------------------------------------------------
(* detect(opts) of the legacy generation, on linux.  process.env.JAVA_HOME  *)
(* is not set, so the java home is opts.javaHome or null.                  *)

MissingDir == "/missing"
JavaHomes == Dirs \cup {MissingDir, ""}

\* existsSync(it)
ExistsSync(it) == it \in Dirs

\* home = opts.javaHome || null; if (home && !existsSync(home)) home = null
ResolveHome(javaHome) == IF javaHome # "" /\ ExistsSync(javaHome) THEN javaHome ELSE "null"

\* isJDK(dir) of the legacy generation: the jdkInfo, or nothing
LegacyIsJDK(dir) ==
    IF fs[dir].kind = "jdk"
    THEN {[path |-> dir, version |-> fs[dir].version, build |-> fs[dir].build,
           architecture |-> fs[dir].architecture]}
    ELSE {}

\* jdkInfo.version + '_' + jdkInfo.build
VersionBuild(jdkInfo) == <<jdkInfo.version, jdkInfo.build>>

\* results.jdks[key] = jdkInfo: an entry with the same key is overwritten
PutJDKs(jdks, found) ==
    {j \in jdks : \A f \in found : VersionBuild(j) # VersionBuild(f)} \cup found

\* the scan is given up at the first path that holds no JDK
RECURSIVE CollectJDKsUntilBad(_, _)
CollectJDKsUntilBad(jdks, jdkPaths) ==
    IF jdkPaths = <<>> \/ LegacyIsJDK(Head(jdkPaths)) = {} THEN jdks
    ELSE CollectJDKsUntilBad(PutJDKs(jdks, LegacyIsJDK(Head(jdkPaths))), Tail(jdkPaths))

\* results.jdks after the probes of jdkPaths have completed, in this order
RECURSIVE CollectJDKs(_, _)
CollectJDKs(jdks, jdkPaths) ==
    IF jdkPaths = <<>> THEN jdks
    ELSE CollectJDKs(PutJDKs(jdks, LegacyIsJDK(Head(jdkPaths))), Tail(jdkPaths))

\* which('javac'): the directories of PATH that hold a javac
JavacDirs == {d \in envPATH : fs[d].kind = "jdk"}

\* findJDKsLinux() answered dir; the java home is put in front of it
JdkPaths(home, dir) == IF home # "null" /\ home # dir THEN <<home, dir>> ELSE <<dir>>

Reverse(s) == [i \in 1..Len(s) |-> s[Len(s) + 1 - i]]

\* the cache answers also when it is bypassed
CacheHitAlways(bypassCache) == legacyCache # 0
\* if (cache && !opts.bypassCache) return Promise.resolve(cache)
CacheHit(bypassCache) == legacyCache # 0 /\ ~bypassCache

\* detect(opts) up to the promise it returns
LegacyDetect(bypassCache, javaHome) ==
    /\ impl = "legacy"
    /\ ~Pending
    /\ LET c == [NoCall EXCEPT !.op = "detect", !.force = bypassCache] IN
       IF CacheHit(bypassCache)
       THEN /\ call' = [c EXCEPT !.status = "resolved", !.col = legacyCache,
                                 !.value = legacyResults[legacyCache]]
            /\ UNCHANGED <<legacyCache, legacyResults>>
       ELSE /\ Len(legacyResults) < MaxCols
            \* const results = cache = { jdks: {} }; results.home = home
            /\ legacyResults' = Append(legacyResults,
                                       [jdks |-> {}, home |-> ResolveHome(javaHome)])
            /\ legacyCache' = Len(legacyResults) + 1
            /\ call' = [c EXCEPT !.status = "pending", !.col = Len(legacyResults) + 1]
    /\ UNCHANGED extVars
    /\ UNCHANGED <<impl, fs, envPATH, recs, scanCache, scanned, cache, cols,
                   defaultPath, resolvedTo, envChanges>>

\* the promise chain: detectJDKPaths, the probes, and the results
LegacyScanned(reversed) ==
    /\ impl = "legacy"
    /\ Pending
    /\ IF JavacDirs = {}
       THEN \* which() fails and the chain rejects
            /\ call' = [call EXCEPT !.status = "rejected"]
            /\ UNCHANGED legacyResults
       ELSE \E dir \in JavacDirs :
            LET jdkPaths == JdkPaths(legacyResults[call.col].home, dir)
                order    == IF reversed THEN Reverse(jdkPaths) ELSE jdkPaths
                results  == [legacyResults[call.col] EXCEPT
                                !.jdks = CollectJDKs(@, order)]
            IN  /\ legacyResults' = [legacyResults EXCEPT ![call.col] = results]
                /\ call' = [call EXCEPT !.status = "resolved", !.value = results,
                                        !.probes = Len(jdkPaths)]
    /\ UNCHANGED extVars
    /\ UNCHANGED <<impl, fs, envPATH, recs, scanCache, scanned, cache, cols,
                   legacyCache, defaultPath, resolvedTo, envChanges>>

-----------------------------------------------------------------------------
(* Two detect() calls of the legacy generation whose promise chains overlap *)

Callers == {1, 2}

\* no call was made: status, options, the results object, the probes pending
NoPair ==
    [i \in Callers |-> [status |-> "none", bypassCache |-> FALSE, javaHome |-> "",
                        col |-> 0, todo |-> {}, found |-> <<>>, epoch |-> 0]]

\* the probes isJDK(dir) that have been started and have not completed
InFlight(dir) == Cardinality({i \in Callers : dir \in pair[i].todo})

\* detect(opts) of caller i, up to the promise it returns
PairDetect(i, bypassCache, javaHome) ==
    /\ impl = "legacy"
    /\ pair[i].status = "none"
    /\ i = 2 => pair[1].status # "none"
    /\ LET c == [pair[i] EXCEPT !.bypassCache = bypassCache, !.javaHome = javaHome] IN
       IF CacheHit(bypassCache)
       THEN /\ pair' = [pair EXCEPT ![i] = [c EXCEPT !.status = "resolved",
                                                     !.col = legacyCache]]
            /\ UNCHANGED <<legacyCache, legacyResults>>
       ELSE /\ Len(legacyResults) < MaxCols
            /\ legacyResults' = Append(legacyResults,
                                       [jdks |-> {}, home |-> ResolveHome(javaHome)])
            /\ legacyCache' = Len(legacyResults) + 1
            /\ pair' = [pair EXCEPT ![i] = [c EXCEPT !.status = "pending",
                                                     !.col = Len(legacyResults) + 1]]
    /\ UNCHANGED <<impl, fs, envPATH, recs, scanCache, scanned, cache, cols,
                   defaultPath, resolvedTo, envChanges, call, probe, watchers,
                   pathSet, session, caller, registry>>

\* detectJDKPaths of caller i is done: jdkPaths.map(p => isJDK(p)) starts a
\* probe of every path, or the chain rejects
PairPaths(i) ==
    /\ impl = "legacy"
    /\ pair[i].status = "pending"
    /\ IF JavacDirs = {}
       THEN pair' = [pair EXCEPT ![i].status = "rejected"]
       ELSE \E dir \in JavacDirs :
               pair' = [pair EXCEPT ![i].status = "probing",
                                    ![i].todo = Range(JdkPaths(legacyResults[pair[i].col].home,
                                                               dir))]
    /\ UNCHANGED <<coreVars, probe, watchers, pathSet, session, caller, registry>>

\* a probe of caller i completes and writes into the results of the call;
\* after the last one the promise of the call resolves
PairProbed(i, dir) ==
    /\ impl = "legacy"
    /\ dir \in pair[i].todo
    /\ legacyResults' = [legacyResults EXCEPT
                            ![pair[i].col].jdks = PutJDKs(@, LegacyIsJDK(dir))]
    /\ pair' = [pair EXCEPT ![i].todo = @ \ {dir},
                            ![i].status = IF pair[i].todo = {dir} THEN "resolved" ELSE @]
    /\ UNCHANGED <<impl, fs, envPATH, recs, scanCache, scanned, cache, cols, legacyCache,
                   defaultPath, resolvedTo, envChanges, call, probe, watchers,
                   pathSet, session, caller, registry>>

-----------------------------------------------------------------------------
(* Two forced scans of one path set in the gawk generation, as two         *)
(* detect({ paths, force: true }) calls or two rescans of a watch session  *)
(* start them: scan(...).then(results => processJDKs(results, paths)).     *)
(* Caller 1 dispatches first.                                              *)

RacePaths == <<PlatformDir>>

\* appc.detect.scan({ paths, force: true }) is called
RaceDispatch(i) ==
    /\ impl = "gawk"
    /\ pair[i].status = "none"
    /\ i = 2 => pair[1].status # "none"
    /\ pair' = [pair EXCEPT ![i].status = "scanning"]
    /\ UNCHANGED <<coreVars, probe, watchers, pathSet, session, caller, registry>>

\* the scan of caller i probes the directories: the records it will
\* resolve with are made from what the directories hold now
RaceRead(i) ==
    /\ impl = "gawk"
    /\ pair[i].status = "scanning"
    /\ \E sc \in {Scan(RacePaths, TRUE)} :
          /\ sc.room
          /\ recs' = sc.recs
          /\ scanCache' = sc.scanCache
          /\ scanned' = sc.scanned
          /\ pair' = [pair EXCEPT ![i].status = "read", ![i].found = sc.results,
                                  \* how often the host had changed by then
                                  ![i].epoch = envChanges]
    /\ UNCHANGED <<impl, fs, envPATH, cache, cols, legacyCache, legacyResults,
                   defaultPath, resolvedTo, envChanges, call, probe, watchers,
                   pathSet, session, caller, registry>>

\* the promise of the scan of caller i resolves: processJDKs(results, paths)
RaceMerged(i) ==
    /\ impl = "gawk"
    /\ pair[i].status = "read"
    /\ \E pj \in {ProcessJDKs(recs, pair[i].found, RacePaths)} :
          /\ pj.col <= MaxCols
          /\ recs' = pj.recs
          /\ cache' = pj.cache
          /\ cols' = pj.cols
          /\ pair' = [pair EXCEPT ![i].status = "resolved", ![i].col = pj.col]
    /\ UNCHANGED <<impl, fs, envPATH, scanCache, scanned, legacyCache, legacyResults,
                   defaultPath, resolvedTo, envChanges, call, probe, watchers,
                   pathSet, session, caller, registry>>

\* the caller empties the jdks of the results it was given: the object it
\* holds is the one detect() resolved with
MutateSnapshot ==
    /\ impl = "legacy"
    /\ call.status = "resolved" /\ call.op = "detect"
    /\ call.value.jdks # {}
    /\ legacyResults' = [legacyResults EXCEPT ![call.col].jdks = {}]
    /\ call' = [NoCall EXCEPT !.op = "mutate", !.status = "resolved", !.col = call.col,
                              !.value = legacyResults'[call.col]]
    /\ UNCHANGED extVars
    /\ UNCHANGED <<impl, fs, envPATH, recs, scanCache, scanned, cache, cols,
                   legacyCache, defaultPath, resolvedTo, envChanges>>

-----------------------------------------------------------------------------
(* The probe of one directory, in each generation: detect(dir) of the      *)
(* first, isJDK(dir) of the legacy and of the gawk generation, and         *)
(* checkDir(dir) of the engine generation.                                 *)

\* null, for a version, a build and an architecture
NullVersion == <<>>
NullBuild == -1
NullArch == "null"

\* what the argument of a probe is: not a string (or ''), a path that does
\* not exist, a file, a directory without a JVM library, one without one of
\* the four programs, a JDK whose javac fails both times it is run, one
\* whose javac prints no version, or an installation
Target(k, a) == [kind |-> k, version |-> NullVersion, build |-> NullBuild, architecture |-> a]

ProbeTargets ==
    {Target(k, NullArch) : k \in {"nonString", "missing", "file", "noLibjvm",
                                  "noExecutable", "javacFails"}}
        \cup {Target("unparsable", a) : a \in {"32bit", "64bit"}}
        \cup Installs

Generations == {"appcd", "legacy", "gawk", "engine"}

\* ['java', 'javac', 'keytool', 'jarsigner']
RequiredExecutables == <<"java", "javac", "keytool", "jarsigner">>

\* the programs in the bin directory of a target; the target without one of
\* the four has no jarsigner
Programs(t) ==
    IF t.kind \in {"jdk", "javacFails", "unparsable", "noLibjvm"}
    THEN Range(RequiredExecutables)
    ELSE IF t.kind = "noExecutable" THEN {"java", "javac", "keytool"}
    ELSE {}

\* one of libjvmLocations[process.platform] exists under the target
HasLibjvm(t) == t.kind \in {"jdk", "javacFails", "unparsable", "noExecutable"}

\* the programs are taken for present
ExecutablesAssumed(t) == Range(RequiredExecutables)
\* values.executables after every(cmd => ...): every() stops at the first
\* program that is not a file
Executables(t) ==
    {RequiredExecutables[i] : i \in {j \in 1..Len(RequiredExecutables) :
        \A k \in 1..j : RequiredExecutables[k] \in Programs(t)}}

TypeErrorNotAString == "TypeError: Expected directory to be a valid string"
ErrorDoesNotExist == "Error: Directory does not exist"

\* a constructor that looks for the directory before it looks at its argument
ConstructorDirFirst(t) ==
    IF t.kind \in {"nonString", "missing"} \/ (t.kind = "file" /\ impl # "gawk")
    THEN [error |-> ErrorDoesNotExist, checks |-> <<"exists">>]
    ELSE IF ~HasLibjvm(t)
    THEN [error |-> "Error: Directory does not contain a JDK",
          checks |-> <<"exists", "typeof", "libjvm">>]
    ELSE IF Executables(t) # Range(RequiredExecutables)
    THEN [error |-> "Error: Directory does not contain a JDK",
          checks |-> <<"exists", "typeof", "libjvm", "executables">>]
    ELSE [error |-> "", checks |-> <<"exists", "typeof", "libjvm", "executables">>]

\* constructor(dir): the error it throws, "" for none, and the checks it
\* made on the way, in their order
Constructor(t) ==
    \* typeof dir !== 'string' || !dir
    IF t.kind = "nonString"
    THEN [error |-> TypeErrorNotAString, checks |-> <<"typeof">>]
    \* isDir(dir), and appc.fs.existsSync(dir) in the gawk generation
    ELSE IF t.kind = "missing" \/ (t.kind = "file" /\ impl # "gawk")
    THEN [error |-> ErrorDoesNotExist, checks |-> <<"typeof", "exists">>]
    ELSE IF ~HasLibjvm(t)
    THEN [error |-> IF impl = "appcd" THEN "Error: Directory missing JVM library"
                    ELSE "Error: Directory does not contain a JDK",
          checks |-> <<"typeof", "exists", "libjvm">>]
    ELSE IF Executables(t) # Range(RequiredExecutables)
    THEN [error |-> IF impl = "appcd" THEN "Error: Directory missing required program"
                    ELSE "Error: Directory does not contain a JDK",
          checks |-> <<"typeof", "exists", "libjvm", "executables">>]
    ELSE [error |-> "", checks |-> <<"typeof", "exists", "libjvm", "executables">>]

\* the constructor's checks, and the same checks at the top of the legacy isJDK
ConstructorThrows(t) == Constructor(t).error # ""

\* parseInt(m[2]) || null
ParseBuild(b) == IF b = 0 THEN NullBuild ELSE b

NoProbe == [pos |-> "none", target |-> Target("none", NullArch), status |-> "none",
            version |-> NullVersion, build |-> NullBuild, architecture |-> NullArch,
            error |-> "", checks |-> <<>>, executables |-> {}, key |-> <<>>]

Found(v, b, a) == [status |-> "record", version |-> v, build |-> b, architecture |-> a]
NotFound == [status |-> "notfound", version |-> NullVersion, build |-> NullBuild,
             architecture |-> NullArch]
Rejected == [status |-> "rejected", version |-> NullVersion, build |-> NullBuild,
             architecture |-> NullArch]

\* output.match(/javac (.+)_(.+)/) and what init() stores
InitRecord(t) ==
    IF t.kind = "jdk" THEN Found(t.version, ParseBuild(t.build), t.architecture)
    ELSE Found(NullVersion, NullBuild, t.architecture)

\* new JDK(dir) of detect(dir), of isJDK(dir) and of checkDir(dir); the
\* synchronous checks of the legacy isJDK(dir)
Construct(t) ==
    IF ~ConstructorThrows(t) THEN [NotFound EXCEPT !.status = "none"]
    \* export async function detect(dir) { return await new JDK(dir).init(); }
    ELSE IF impl = "appcd" THEN Rejected
    \* return resolve(); .catch(err => Promise.resolve())
    ELSE NotFound

\* init() and what the caller makes of it; proxied: the GawkObject of the
\* engine generation exposes its values as properties (this.executables)
InitJDK(t, proxied) ==
    CASE impl = "appcd" ->
            \* .catch(() => this)
            IF t.kind = "javacFails" THEN Found(NullVersion, NullBuild, NullArch)
            ELSE InitRecord(t)
      [] impl = "legacy" ->
            \* finalize(): resolve(jdkInfo) when the output matches, else resolve()
            IF t.kind = "jdk" THEN Found(t.version, t.build, t.architecture)
            ELSE NotFound
      [] impl = "gawk" ->
            IF t.kind = "javacFails" THEN NotFound ELSE InitRecord(t)
      [] impl = "engine" ->
            IF ~proxied \/ t.kind = "javacFails" THEN NotFound ELSE InitRecord(t)

\* the probe is called: the constructor runs
ProbeConstruct ==
    /\ probe.pos = "start"
    /\ LET r == Construct(probe.target) IN
       probe' = [probe EXCEPT !.pos = IF r.status = "none" THEN "constructed" ELSE "done",
                              !.status = r.status,
                              \* the legacy isJDK(dir) has no constructor
                              !.error = IF impl = "legacy" THEN ""
                                        ELSE Constructor(probe.target).error,
                              !.checks = IF impl = "legacy" THEN <<>>
                                         ELSE Constructor(probe.target).checks,
                              !.executables = IF r.status = "none"
                                              THEN Executables(probe.target) ELSE {}]
    /\ UNCHANGED <<coreVars, pair, watchers, pathSet, session, caller, registry>>

\* javac has run, or could not be run
ProbeInit(proxied) ==
    /\ probe.pos = "constructed"
    /\ LET r == InitJDK(probe.target, proxied) IN
       probe' = [probe EXCEPT !.pos = "done", !.status = r.status,
                              !.version = r.version, !.build = r.build,
                              !.architecture = r.architecture]
    /\ UNCHANGED <<coreVars, pair, watchers, pathSet, session, caller, registry>>

\* detect() of the legacy generation stores what the probe found:
\* results.jdks[jdkInfo.version + '_' + jdkInfo.build] = jdkInfo
ProbeStored ==
    /\ impl = "legacy"
    /\ probe.pos = "done" /\ probe.status = "record"
    /\ probe' = [probe EXCEPT !.pos = "stored", !.key = VersionBuild(probe)]
    /\ UNCHANGED <<coreVars, pair, watchers, pathSet, session, caller, registry>>

-----------------------------------------------------------------------------
(* watch(opts) of the gawk generation: the Watcher handle, the listener on *)
(* the GawkArray, one filesystem watcher for each path with a debounced    *)
(* rescan of that path, and the events the handle emits.                   *)

NoSession ==
    [state |-> "none",      \* where the promise chain of watch() is
     paths |-> <<>>,        \* what appc.detect.getPaths returned
     col |-> 0,             \* the GawkArray of the first processJDKs
     listening |-> FALSE,   \* results.watch(listener) is registered
     unwatchers |-> {},     \* handle.unwatchers: the paths with a watcher
     timers |-> {},         \* the paths whose debounced rescan is pending
     burst |-> [d \in Dirs |-> 0],     \* events since the timer of d was started
     fired |-> 0,                      \* events behind the timer that fired last
     scanning |-> [d \in Dirs |-> 0],  \* rescans of d in flight
     stopCalls |-> 0,       \* calls of handle.stop() by the owner of the handle
     armedAtStop |-> {},    \* the timers pending when stop() was first called
     unwatched |-> 0,       \* calls of unwatch functions
     watched |-> 0,         \* calls of appc.fs.watch
     liveAtFirst |-> {},    \* the watchers there were at the first 'results'
     results |-> 0,         \* 'results' events emitted
     errors |-> 0,          \* 'error' events emitted
     last |-> <<>>,         \* the value of the last 'results' event
     merged |-> "",         \* the path whose rescan was merged last
     seen |-> <<>>]         \* what the listeners of the GawkArray saw, one
                            \* entry for each notify() of the last processJDKs

Subscribers == {"s"}

\* cachedJDK.get('version') === jdk.get('version') && cachedJDK.get('build')
\* === jdk.get('build'): get() returns the gawk object that wraps the value
\* (the comparator calls .toJS() on it), and every record has its own
SameVersionAndBuild(cachedJDK, jdk) == cachedJDK = jdk

\* the inner loop: the first cached record that compares equal, 0 for none
CachedTwin(cached, jdk) ==
    IF \E i \in 1..Len(cached) : SameVersionAndBuild(cached[i], jdk)
    THEN cached[CHOOSE i \in 1..Len(cached) :
                    /\ SameVersionAndBuild(cached[i], jdk)
                    /\ \A j \in 1..(i - 1) : ~SameVersionAndBuild(cached[j], jdk)]
    ELSE 0

\* jdk._watchers = cachedJDK._watchers, for the jdks in order
RECURSIVE CopyWatchers(_, _, _)
CopyWatchers(W, cached, jdks) ==
    IF jdks = <<>> THEN W
    ELSE LET twin == CachedTwin(cached, Head(jdks))
             W1   == IF twin = 0 THEN W ELSE [W EXCEPT ![Head(jdks)] = W[twin]]
         IN  CopyWatchers(W1, cached, Tail(jdks))

\* the listeners are called before the array is replaced
NotifiedBeforeReplace(R, old, new) == ToJS(R, old)
\* cachedValue._value = jdks; cachedValue.notify(): what the listeners see
Notified(R, old, new) == ToJS(R, new)

\* processJDKs(jdks, paths) with the subscribers and the notification
Merge(R, W, jdks, paths) ==
    LET pj     == ProcessJDKs(R, jdks, paths)
        hash   == PathsHash(paths)
        cached == IF cache[hash] = 0 THEN <<>> ELSE cols[cache[hash]]
    IN  [recs     |-> pj.recs,
         cache    |-> pj.cache,
         cols     |-> pj.cols,
         col      |-> pj.col,
         watchers |-> CopyWatchers(W, cached, SortJDKs(R, jdks)),
         seen     |-> <<Notified(pj.recs, cached, pj.cols[pj.col])>>]

\* the garbage collector moves the subscriber lists with the records
CollectWatchers(W, sc, cs) ==
    LET order == RefOrder(sc, cs)
    IN  [r \in Slots |-> IF r <= Len(order) THEN W[order[r]] ELSE {}]

\* only the first unwatch function is shifted off and called
StopFirst(s) ==
    [s EXCEPT !.unwatchers =
        IF @ = {} THEN {} ELSE @ \ {CHOOSE d \in @ : \A e \in @ : DirOrder(d) <= DirOrder(e)},
              !.unwatched = IF s.unwatchers = {} THEN @ ELSE @ + 1]
\* handle.stop(): every unwatch function is shifted off and called
Stop(s) == [s EXCEPT !.unwatchers = {}, !.unwatched = @ + Cardinality(s.unwatchers)]

\* .catch(err => { handle.stop(); handle.emit('error', err); })
EmitError(s) == [Stop(s) EXCEPT !.state = "stopped", !.errors = @ + 1]

\* for (const dir of paths) handle.unwatchers.push(appc.fs.watch(dir, ...))
Register(s, paths) ==
    [s EXCEPT !.unwatchers = @ \cup Range(paths), !.watched = @ + Len(paths)]

\* handle.emit('results', ...) by the chain of watch()
EmitResults(s, value) ==
    [s EXCEPT !.results = @ + 1, !.last = value,
              !.liveAtFirst = IF s.results = 0 THEN s.unwatchers ELSE @]

\* the event is emitted before the watchers are registered
StartSessionEmitFirst(s, paths, value) == Register(EmitResults(s, value), paths)
\* the callback of the first scan: the watchers, then the first event
StartSession(s, paths, value) == EmitResults(Register(s, paths), value)

\* watch(opts): the head of the chain, platform paths and getPaths
Watch(paths, ignorePlatformPaths) ==
    /\ impl = "gawk"
    /\ session.state = "none"
    /\ LET cands == CandidatePaths(ignorePlatformPaths, paths)
       IN  session' = IF PathsValid(cands)
                      THEN [session EXCEPT !.state = "starting", !.paths = GetPaths(cands)]
                      ELSE EmitError(session)  \* TypeError
    /\ UNCHANGED <<coreVars, pair, probe, watchers, pathSet, caller, registry>>

\* the first scan and processJDKs, the listener, the watchers and the first
\* 'results' event; process.env.PATH.split throws when PATH is not defined
WatchScanned(force) ==
    /\ impl = "gawk"
    /\ session.state = "starting"
    /\ \E sc \in {Scan(session.paths, force)} :
       \E mg \in {Merge(sc.recs, watchers, sc.results, session.paths)} :
       \E ok \in {IF pathSet THEN mg
                  ELSE [mg EXCEPT !.recs = sc.recs, !.cache = cache, !.cols = cols,
                                  !.watchers = watchers]} :
       \E gc \in {Collect(ok.recs, sc.scanCache, ok.cols)} :
           /\ sc.room
           /\ mg.col <= MaxCols
           /\ recs' = gc.recs
           /\ scanCache' = gc.scanCache
           /\ scanned' = sc.scanned
           /\ cache' = ok.cache
           /\ cols' = gc.cols
           /\ watchers' = CollectWatchers(ok.watchers, sc.scanCache, ok.cols)
           /\ session' =
                IF pathSet
                THEN StartSession([session EXCEPT !.state = "watching", !.col = mg.col,
                                                  !.listening = TRUE,
                                                  !.seen = mg.seen],
                                  session.paths, ToJS(mg.recs, mg.cols[mg.col]))
                ELSE EmitError(session)
    /\ UNCHANGED <<impl, fs, envPATH, legacyCache, legacyResults, defaultPath,
                   resolvedTo, envChanges, call, pair, probe, pathSet, caller, registry>>

\* the owner of the handle calls handle.stop()
StopHandle ==
    /\ impl = "gawk"
    /\ session.state # "none"
    /\ session.stopCalls < MaxStops
    /\ session' = [Stop(session) EXCEPT !.stopCalls = @ + 1,
                                        !.armedAtStop = IF session.stopCalls = 0
                                                        THEN session.timers ELSE @]
    /\ UNCHANGED <<coreVars, pair, probe, watchers, pathSet, caller, registry>>

\* a callback that is not debounced: one run, and one scan, for every event
TimerFiresPerEvent(dir) ==
    /\ impl = "gawk"
    /\ dir \in session.timers
    /\ session' = [session EXCEPT !.timers = @ \ {dir},
                                  !.fired = session.burst[dir],
                                  !.burst[dir] = 0,
                                  !.scanning[dir] = @ + session.burst[dir]]
    /\ UNCHANGED <<coreVars, pair, probe, watchers, pathSet, caller, registry>>

\* the timer of the debounced callback of dir fires: the callback runs once
\* and calls appc.detect.scan for [dir]
TimerFires(dir) ==
    /\ impl = "gawk"
    /\ dir \in session.timers
    /\ session' = [session EXCEPT !.timers = @ \ {dir},
                                  !.fired = session.burst[dir],
                                  !.burst[dir] = 0,
                                  !.scanning[dir] = @ + 1]
    /\ UNCHANGED <<coreVars, pair, probe, watchers, pathSet, caller, registry>>

\* the scan of [dir] that the callback started is done: processJDKs with the
\* paths of the session, and the listener's 'results' event
Rescan(dir) ==
    /\ impl = "gawk"
    /\ session.scanning[dir] > 0
    /\ \E sc \in {Scan(<<dir>>, TRUE)} :
       \E mg \in {Merge(sc.recs, watchers, sc.results, session.paths)} :
       \E ok \in {IF pathSet THEN mg
                  ELSE [mg EXCEPT !.recs = sc.recs, !.cache = cache, !.cols = cols,
                                  !.watchers = watchers]} :
       \E gc \in {Collect(ok.recs, sc.scanCache, ok.cols)} :
       \E s \in {[session EXCEPT !.scanning[dir] = @ - 1]} :
           /\ sc.room
           /\ mg.col <= MaxCols
           /\ recs' = gc.recs
           /\ scanCache' = gc.scanCache
           /\ scanned' = sc.scanned
           /\ cache' = ok.cache
           /\ cols' = gc.cols
           /\ watchers' = CollectWatchers(ok.watchers, sc.scanCache, ok.cols)
           /\ session' =
                IF pathSet
                THEN [s EXCEPT !.results = IF s.listening /\ mg.col = s.col
                                           THEN @ + 1 ELSE @,
                               !.last = IF s.listening /\ mg.col = s.col
                                        THEN ToJS(mg.recs, mg.cols[mg.col]) ELSE @,
                               !.merged = dir,
                               !.seen = mg.seen]
                ELSE EmitError(s)
    /\ UNCHANGED <<impl, fs, envPATH, legacyCache, legacyResults, defaultPath,
                   resolvedTo, envChanges, call, pair, probe, pathSet, caller, registry>>

\* a subscriber binds to the i-th record of the session's GawkArray
Subscribe(i, sub) ==
    /\ impl = "gawk"
    /\ session.state = "watching"
    /\ i \in 1..Len(cols[session.col])
    /\ sub \notin watchers[cols[session.col][i]]
    /\ watchers' = [watchers EXCEPT ![cols[session.col][i]] = @ \cup {sub}]
    /\ UNCHANGED <<coreVars, pair, probe, pathSet, session, caller, registry>>

\* the contents of a directory change while the session runs; a watcher on
\* the directory (re)starts the timer of its debounced rescan
FsEvent(d, c) ==
    /\ impl = "gawk"
    /\ session.state \in {"watching", "stopped"}
    /\ envChanges < MaxFsEvents
    /\ fs' = [fs EXCEPT ![d] = c]
    /\ envChanges' = envChanges + 1
    /\ session' = IF d \in session.unwatchers
                  THEN [session EXCEPT !.timers = @ \cup {d}, !.burst[d] = @ + 1]
                  ELSE session
    /\ UNCHANGED <<impl, envPATH, recs, scanCache, scanned, cache, cols, legacyCache,
                   legacyResults, defaultPath, resolvedTo, call, pair, probe, watchers,
                   pathSet, caller, registry>>

\* delete process.env.PATH
UnsetPath ==
    /\ impl = "gawk"
    /\ session.state # "none"
    /\ pathSet
    /\ envChanges < MaxFsEvents
    /\ pathSet' = FALSE
    /\ envChanges' = envChanges + 1
    /\ UNCHANGED <<impl, fs, envPATH, recs, scanCache, scanned, cache, cols, legacyCache,
                   legacyResults, defaultPath, resolvedTo, call, pair, probe, watchers,
                   session, caller, registry>>

-----------------------------------------------------------------------------
(* detect(opts) and watch(opts) of the engine generation, as their caller  *)
(* sees them: the options object is the caller's, and is passed on to      *)
(* engine.detect(opts), which watches when opts.watch is set.              *)

\* an options object as a caller writes it
Options(force, paths) == [force |-> force, paths |-> paths, watch |-> FALSE,
                          redetect |-> FALSE]

NoCaller == [opts |-> Options(FALSE, <<>>), calls |-> <<>>, watches |-> 0]

\* engine.detect(opts): a one-shot detection, or a watching one
EngineDetect(c, opts) == [c EXCEPT !.watches = IF opts.watch THEN @ + 1 ELSE @]

\* opts.watch = true; opts.redetect = true
WatchOpts(opts) == [opts EXCEPT !.watch = TRUE, !.redetect = TRUE]

\* watch(opts) with the caller's options object
CallWatch ==
    /\ impl = "engine"
    /\ Len(caller.calls) < MaxCalls
    /\ caller' = EngineDetect([caller EXCEPT !.opts = WatchOpts(@),
                                             !.calls = Append(@, "watch")],
                              WatchOpts(caller.opts))
    /\ UNCHANGED <<coreVars, probe, watchers, pathSet, session, pair, registry>>

\* the caller writes a new options object
WriteOptions(force, paths) ==
    /\ impl = "engine"
    /\ Len(caller.calls) < MaxCalls
    /\ caller.opts # Options(force, paths)
    /\ caller' = [caller EXCEPT !.opts = Options(force, paths)]
    /\ UNCHANGED <<coreVars, probe, watchers, pathSet, session, pair, registry>>

\* detect(opts) with the caller's options object
CallDetect ==
    /\ impl = "engine"
    /\ Len(caller.calls) < MaxCalls
    /\ caller' = EngineDetect([caller EXCEPT !.calls = Append(@, "detect")], caller.opts)
    /\ UNCHANGED <<coreVars, probe, watchers, pathSet, session, pair, registry>>

-----------------------------------------------------------------------------
(* scanRegistry() of the engine generation: for each of the two keys the   *)
(* CurrentVersion, the subkeys, and the JavaHome of every subkey.  The     *)
(* JavaHome lookups of both keys are in flight together.                   *)

Hives == {"JavaSoft", "Wow6432Node"}
\* the subkeys registry.keys() lists: one per installed version
Subkeys == Hives \X {"1.7", "1.8"}

NoRegistry ==
    [current |-> [h \in Hives |-> ""],     \* CurrentVersion, "" when get() fails
     listed  |-> [h \in Hives |-> FALSE],  \* registry.keys() succeeds
     home    |-> [k \in Subkeys |-> ""],   \* JavaHome, "" when get() fails
     todo    |-> {},                       \* the JavaHome lookups pending
     results |-> <<>>,                     \* const results = {}, in insertion order
     status  |-> "none", paths |-> <<>>, defaultPath |-> ""]

\* a registry, and scanRegistry() called on it
Registries ==
    {[NoRegistry EXCEPT !.current = c, !.listed = l, !.home = j, !.status = "scanning",
                        !.todo = {k \in Subkeys : l[k[1]]}] :
        c \in [Hives -> {k[2] : k \in Subkeys} \cup {""}], l \in [Hives -> BOOLEAN],
        j \in [Subkeys -> Dirs \cup {""}]}

\* registry.get('HKLM', key, 'JavaHome') of subkey k settles
RegistryGet(k) ==
    /\ impl = "engine"
    /\ k \in registry.todo
    /\ LET javaHome == registry.home[k] IN
       registry' =
         [registry EXCEPT
            !.todo = @ \ {k},
            \* if (javaHome && !results.hasOwnProperty(javaHome))
            \*     results[javaHome] = key === defaultKey
            !.results = IF javaHome # "" /\ \A i \in 1..Len(@) : @[i].path # javaHome
                        THEN Append(@, [path |-> javaHome,
                                        default |-> k[2] = registry.current[k[1]]])
                        ELSE @]
    /\ UNCHANGED <<coreVars, probe, watchers, pathSet, session, pair, caller>>

\* Promise.all(...).then(() => ({ paths, defaultPath }))
RegistryDone ==
    /\ impl = "engine"
    /\ registry.status = "scanning" /\ registry.todo = {}
    /\ LET r == registry.results
           d == {i \in 1..Len(r) : r[i].default}
       IN  registry' =
             [registry EXCEPT
                !.status = "done",
                !.paths = [i \in 1..Len(r) |-> r[i].path],
                \* Object.keys(results).filter(key => results[key])[0]
                !.defaultPath = IF d = {} THEN ""
                                ELSE r[CHOOSE i \in d : \A j \in d : i <= j].path]
    /\ UNCHANGED <<coreVars, probe, watchers, pathSet, session, pair, caller>>

-----------------------------------------------------------------------------
(* processResults(results, previousValue, engine) of the engine generation *)

\* the comparator of processResults
CompareResults(a, b) ==
    LET r == VersionCompare(a.version, b.version) IN
    IF r # 0 THEN r
    \* (a.build || 0) - (b.build || 0)
    ELSE IF a.build - b.build # 0 THEN a.build - b.build
    ELSE LocaleCompare(a.architecture, b.architecture)

\* results.sort(...): insertion sort, as for the arrays of processJDKs
RECURSIVE InsertResult(_, _)
InsertResult(x, s) ==
    IF s = <<>> THEN <<x>>
    ELSE IF CompareResults(Last(s), x) <= 0 THEN s \o <<x>>
    ELSE InsertResult(x, Front(s)) \o <<Last(s)>>

RECURSIVE SortResults(_)
SortResults(s) ==
    IF s = <<>> THEN <<>> ELSE InsertResult(Last(s), SortResults(Front(s)))

\* engine.defaultPath && result.path === engine.defaultPath
IsDefaultPath(result) == defaultPath # "" /\ result.path = defaultPath

ProcessResults(results) ==
    LET sorted == SortResults(results)
        \* the loop: every record's default is written, true or false
        marked == [i \in 1..Len(sorted) |->
                      [sorted[i] EXCEPT !.default = IsDefaultPath(sorted[i])]]
        foundDefault == \E i \in 1..Len(marked) : marked[i].default
    IN  IF ~foundDefault /\ marked # <<>>
        THEN [marked EXCEPT ![Len(marked)].default = TRUE]
        ELSE marked

\* the records the engine can hand over: one per directory at most, each of
\* any installation, carrying whatever default flag an earlier pass left
ResultsOf(dirs) ==
    {r \in [1..Len(dirs) -> [path : Dirs, version : {i.version : i \in Installs},
                             build : {i.build : i \in Installs},
                             architecture : {i.architecture : i \in Installs},
                             default : BOOLEAN]] :
        \A i \in 1..Len(dirs) :
            /\ r[i].path = dirs[i]
            /\ Install(r[i].version, r[i].build, r[i].architecture) \in Installs}

EngineResults ==
    UNION {ResultsOf(dirs) : dirs \in {<<>>, <<OtherDir>>, <<PlatformDir>>,
                                       <<OtherDir, PlatformDir>>,
                                       <<PlatformDir, OtherDir>>}}

EngineProcessResults ==
    /\ impl = "engine"
    /\ Pending
    /\ call' = [call EXCEPT !.status = "resolved", !.value = ProcessResults(call.value)]
    /\ UNCHANGED extVars
    /\ UNCHANGED <<impl, fs, envPATH, recs, scanCache, scanned, cache, cols,
                   legacyCache, legacyResults, defaultPath, resolvedTo, envChanges>>

-----------------------------------------------------------------------------
(* The host changes.  detect() reads the filesystem and PATH only after    *)
(* getPaths has answered, so a change while a call is pending is the same  *)
(* as that change right before the call.                                   *)

\* a JDK is copied into a directory, or a directory is emptied
FsChange(d, c) ==
    /\ impl # "engine"
    /\ ~Pending
    /\ envChanges < MaxEnvChanges
    /\ fs[d] # c
    /\ fs' = [fs EXCEPT ![d] = c]
    /\ envChanges' = envChanges + 1
    /\ call' = NoCall
    /\ UNCHANGED extVars
    /\ UNCHANGED <<impl, envPATH, recs, scanCache, scanned, cache, cols, legacyCache,
                   legacyResults, defaultPath, resolvedTo>>

\* process.env.PATH is set
PathChange(S) ==
    /\ impl # "engine"
    /\ ~Pending
    /\ envChanges < MaxEnvChanges
    /\ envPATH # S
    /\ envPATH' = S
    /\ envChanges' = envChanges + 1
    /\ call' = NoCall
    /\ UNCHANGED extVars
    /\ UNCHANGED <<impl, fs, recs, scanCache, scanned, cache, cols, legacyCache,
                   legacyResults, defaultPath, resolvedTo>>

-----------------------------------------------------------------------------

Init ==
    /\ impl \in {"legacy", "gawk", "engine"}
    /\ fs = [d \in Dirs |-> IF d = OtherDir THEN Install(<<1, 8, 0>>, 92, "64bit")
                        ELSE Install(<<1, 8, 0>>, 45, "64bit")]
    /\ envPATH \in IF impl = "engine" THEN {{}} ELSE {{}, {OtherDir}}
    /\ recs = [r \in Slots |-> NoRec]
    /\ scanCache = [k \in Keys |-> <<>>]
    /\ scanned = {}
    /\ cache = [k \in Keys |-> 0]
    /\ cols = <<>>
    /\ legacyCache = 0
    /\ legacyResults = <<>>
    /\ defaultPath \in IF impl = "engine" THEN Dirs \cup {""} ELSE {""}
    /\ resolvedTo = [S \in SUBSET Dirs |-> {}]
    /\ envChanges = 0
    /\ probe = NoProbe
    /\ watchers = [r \in Slots |-> {}]
    /\ pathSet = TRUE
    /\ session = NoSession
    /\ pair = NoPair
    /\ caller = NoCaller
    /\ registry = NoRegistry
    /\ call \in IF impl = "engine"
                THEN {[NoCall EXCEPT !.op = "processResults", !.status = "pending",
                                     !.value = results] : results \in EngineResults}
                ELSE {NoCall}

HostChange ==
    \/ \E d \in Dirs, c \in Contents : FsChange(d, c)
    \/ \E S \in SUBSET Dirs : PathChange(S)

NextLegacy ==
    \/ \E bypassCache \in BOOLEAN, javaHome \in JavaHomes : LegacyDetect(bypassCache, javaHome)
    \/ \E reversed \in BOOLEAN : LegacyScanned(reversed)
    \/ MutateSnapshot
    \/ HostChange

NextGawk ==
    \/ \E paths \in PathInputs, ign \in BOOLEAN : GawkDetect(paths, ign)
    \/ \E force \in BOOLEAN, gawk \in BOOLEAN : GawkScanned(force, gawk)
    \/ ResetCache
    \/ HostChange

NextEngine == EngineProcessResults

Next == NextLegacy \/ NextGawk \/ NextEngine

InitLegacy == Init /\ impl = "legacy"
InitPair == InitLegacy
InitGawk == Init /\ impl = "gawk"
InitEngine == Init /\ impl = "engine"

\* one probe of one directory, in some generation
InitProbe ==
    /\ impl \in Generations
    /\ fs = [d \in Dirs |-> Empty]
    /\ envPATH = {}
    /\ recs = [r \in Slots |-> NoRec]
    /\ scanCache = [k \in Keys |-> <<>>]
    /\ scanned = {}
    /\ cache = [k \in Keys |-> 0]
    /\ cols = <<>>
    /\ legacyCache = 0
    /\ legacyResults = <<>>
    /\ defaultPath = ""
    /\ resolvedTo = [S \in SUBSET Dirs |-> {}]
    /\ envChanges = 0
    /\ call = NoCall
    /\ probe \in {[NoProbe EXCEPT !.pos = "start", !.target = t] : t \in ProbeTargets}
    /\ watchers = [r \in Slots |-> {}]
    /\ pathSet = TRUE
    /\ session = NoSession
    /\ pair = NoPair
    /\ caller = NoCaller
    /\ registry = NoRegistry

NextProbe ==
    \/ ProbeConstruct
    \/ \E proxied \in BOOLEAN : ProbeInit(proxied)
    \/ ProbeStored

\* a watch session: directory A holds a JDK and directory B is empty or
\* holds one, as in the tests
WatchContents == {Empty, Install(<<1, 8, 0>>, 92, "64bit"), Install(<<1, 8, 0>>, 92, "32bit"),
                  Install(<<1, 8, 0>>, 45, "64bit")}

InitWatch ==
    /\ impl = "gawk"
    /\ fs \in {f \in [Dirs -> WatchContents] : f[OtherDir] = Install(<<1, 8, 0>>, 92, "64bit")}
    /\ envPATH = {}
    /\ recs = [r \in Slots |-> NoRec]
    /\ scanCache = [k \in Keys |-> <<>>]
    /\ scanned = {}
    /\ cache = [k \in Keys |-> 0]
    /\ cols = <<>>
    /\ legacyCache = 0
    /\ legacyResults = <<>>
    /\ defaultPath = ""
    /\ resolvedTo = [S \in SUBSET Dirs |-> {}]
    /\ envChanges = 0
    /\ call = NoCall
    /\ probe = NoProbe
    /\ watchers = [r \in Slots |-> {}]
    /\ pathSet = TRUE
    /\ session = NoSession
    /\ pair = NoPair
    /\ caller = NoCaller
    /\ registry = NoRegistry

NextWatch ==
    \/ \E paths \in PathInputs, ign \in BOOLEAN : Watch(paths, ign)
    \/ \E force \in BOOLEAN : WatchScanned(force)
    \/ \E dir \in Dirs : TimerFires(dir)
    \/ \E dir \in Dirs : Rescan(dir)
    \/ StopHandle
    \/ \E i \in 1..MaxPathsLen, sub \in Subscribers : Subscribe(i, sub)
    \/ \E d \in Dirs, c \in WatchContents : FsEvent(d, c)
    \/ UnsetPath

Spec == Init /\ [][Next]_vars
SpecWatch == InitWatch /\ [][NextWatch]_vars

\* a watch session in which PATH stays defined; the promise chain of
\* watch() goes on and a timer that was started fires
NextWatchLive ==
    \/ \E paths \in PathInputs, ign \in BOOLEAN : Watch(paths, ign)
    \/ \E force \in BOOLEAN : WatchScanned(force)
    \/ \E dir \in Dirs : TimerFires(dir)
    \/ \E dir \in Dirs : Rescan(dir)
    \/ \E d \in Dirs, c \in WatchContents : FsEvent(d, c)

SpecWatchLive ==
    /\ InitWatch
    /\ [][NextWatchLive]_vars
    /\ WF_vars(\E force \in BOOLEAN : WatchScanned(force))
    /\ \A dir \in Dirs : WF_vars(TimerFires(dir))
    /\ \A dir \in Dirs : WF_vars(Rescan(dir))
SpecProbe == InitProbe /\ [][NextProbe]_vars
SpecLegacy == InitLegacy /\ [][NextLegacy]_vars

NextPair ==
    \/ \E i \in Callers, bypassCache \in BOOLEAN, javaHome \in JavaHomes :
          PairDetect(i, bypassCache, javaHome)
    \/ \E i \in Callers : PairPaths(i)
    \/ \E i \in Callers, dir \in Dirs : PairProbed(i, dir)

SpecPair == InitPair /\ [][NextPair]_vars

InitRegistry ==
    /\ impl = "engine"
    /\ fs = [d \in Dirs |-> Empty]
    /\ envPATH = {}
    /\ recs = [r \in Slots |-> NoRec]
    /\ scanCache = [k \in Keys |-> <<>>]
    /\ scanned = {}
    /\ cache = [k \in Keys |-> 0]
    /\ cols = <<>>
    /\ legacyCache = 0
    /\ legacyResults = <<>>
    /\ defaultPath = ""
    /\ resolvedTo = [S \in SUBSET Dirs |-> {}]
    /\ envChanges = 0
    /\ call = NoCall
    /\ probe = NoProbe
    /\ watchers = [r \in Slots |-> {}]
    /\ pathSet = TRUE
    /\ session = NoSession
    /\ pair = NoPair
    /\ caller = NoCaller
    /\ registry \in Registries

NextRegistry ==
    \/ \E k \in Subkeys : RegistryGet(k)
    \/ RegistryDone

SpecRegistry == InitRegistry /\ [][NextRegistry]_vars

InitOpts == InitEngine /\ defaultPath = "" /\ call.value = <<>>

NextOpts ==
    \/ \E force \in BOOLEAN, paths \in PathInputs : WriteOptions(force, paths)
    \/ CallWatch
    \/ CallDetect

SpecOpts == InitOpts /\ [][NextOpts]_vars

NextRace ==
    \/ \E i \in Callers : RaceDispatch(i)
    \/ \E i \in Callers : RaceRead(i)
    \/ \E i \in Callers : RaceMerged(i)
    \/ \E d \in Dirs, c \in Contents : FsChange(d, c)

SpecRace == InitGawk /\ [][NextRace]_vars
SpecGawk == InitGawk /\ [][NextGawk]_vars

NextReset ==
    \/ \E paths \in PathInputs, ign \in BOOLEAN : GawkDetect(paths, ign)
    \/ \E force \in BOOLEAN, gawk \in BOOLEAN : GawkScanned(force, gawk)
    \/ ResetCacheCounted

SpecReset == InitGawk /\ [][NextReset]_vars
SpecEngine == InitEngine /\ [][NextEngine]_vars

-----------------------------------------------------------------------------
(* What the claims speak of *)

Resolved == call.status = "resolved"

\* the records of GawkArray c, as values
Collection(c) == ToJS(recs, cols[c])

Defaults(value) == {i \in 1..Len(value) : value[i].default}

Triple(r) == <<r.version, r.build, r.architecture>>

\* what identifies a record's installation: everything but the default flag
Identity(r) == [path |-> r.path, version |-> r.version, build |-> r.build,
                architecture |-> r.architecture]
Identities(value) == {Identity(value[i]) : i \in 1..Len(value)}

\* the order the specification asks for: version, then build ascending, then
\* architecture
SpecifiedOrder(a, b) ==
    LET r == VersionCompare(a.version, b.version) IN
    IF r # 0 THEN r
    ELSE IF a.build # b.build THEN Sign(a.build - b.build)
    ELSE LocaleCompare(a.architecture, b.architecture)

Sorted(value) ==
    \A i \in 1..Len(value), j \in 1..Len(value) :
        i < j => SpecifiedOrder(value[i], value[j]) <= 0

\* the result collections there are: the GawkArrays, and what processResults
\* has left of the array it was given
ResultCollections ==
    {Collection(c) : c \in 1..Len(cols)}
        \cup (IF impl = "engine" /\ Resolved THEN {call.value} ELSE {})

\* a merge has just ended and call.value is the collection it made
Merged == impl \in {"gawk", "engine"} /\ Resolved

\* the records picked by the search path (engine: by the default path)
Matches(value) ==
    {i \in 1..Len(value) : IF impl = "engine" THEN IsDefaultPath(value[i])
                                              ELSE OnSystemPath(value[i])}

-----------------------------------------------------------------------------
(* The claims *)

(* C1: every non-empty result collection holds exactly one record with     *)
(* default = true, and an empty collection holds none, also after a pass   *)
(* that reuses the record objects of an earlier pass with a changed PATH.  *)
C1_ExactlyOneDefault ==
    \A value \in ResultCollections :
        Cardinality(Defaults(value)) = IF value = <<>> THEN 0 ELSE 1

(* C2: after every merge the collection is sorted by version ascending     *)
(* (numeric, segment by segment), then by build ascending, then by         *)
(* architecture in lexical order.                                          *)
C2_SortedAscending == \A value \in ResultCollections : Sorted(value)

(* C3: when some record's javac lives in a directory of the search path    *)
(* (engine: some record is at the default path), the first such record in  *)
(* sorted order is marked default and no later record is.                  *)
C3_FirstOnPathIsDefault ==
    (Merged /\ Matches(call.value) # {}) =>
        LET first == CHOOSE i \in Matches(call.value) :
                        \A j \in Matches(call.value) : i <= j
        IN  /\ call.value[first].default
            /\ \A j \in (first + 1)..Len(call.value) : ~call.value[j].default

(* C4: when no record matches the search path (engine: the default path)   *)
(* and the collection is not empty, the record marked default is the last  *)
(* one in sorted order, and it has the highest version of the collection.  *)
C4_FallbackIsLast ==
    (Merged /\ Matches(call.value) = {} /\ call.value # <<>>) =>
        /\ Defaults(call.value) = {Len(call.value)}
        /\ \A i \in 1..Len(call.value) :
              VersionCompare(call.value[i].version, Last(call.value).version) <= 0

(* C5: no two records of one result collection share the same (version,    *)
(* build, architecture) triple, whatever directories they were found in.   *)
C5_UniqueTriples ==
    \A value \in ResultCollections :
        \A i \in 1..Len(value), j \in 1..Len(value) :
            i # j => Triple(value[i]) # Triple(value[j])

C8_SameObjectUntilReset ==
    [][ \/ ResetCache
        \/ /\ \A k \in Keys : cache[k] # 0 => cache'[k] = cache[k]
           /\ legacyCache # 0 => legacyCache' = legacyCache ]_vars

\* the legacy detect() called with a cache and without bypassCache
LegacyCached ==
    (impl = "legacy" /\ ~Pending /\ legacyCache # 0
        /\ call'.op = "detect" /\ ~call'.force) =>
        /\ call'.status = "resolved"
        /\ call'.probes = 0
        /\ call'.col = legacyCache
        /\ call'.value = legacyResults[legacyCache]
        /\ legacyResults' = legacyResults

\* the gawk detect() getting to scan() without force, paths scanned before
GawkCached ==
    (impl = "gawk" /\ Pending /\ call'.status = "resolved" /\ ~call'.force
        /\ call.paths \in scanned) =>
        /\ call'.probes = 0
        /\ Len(call'.value) = Len(scanCache[call.paths])
        /\ Identities(call'.value) = Identities(ToJS(recs, scanCache[call.paths]))

\* the results hold what the probed directories hold now
LegacyCurrent(value) ==
    \E dir \in JavacDirs :
        LET probed == {dir} \cup (IF value.home = "null" THEN {} ELSE {value.home}) IN
        /\ \A j \in value.jdks : j.path \in probed /\ j \in LegacyIsJDK(j.path)
        /\ \A d \in probed : \A f \in LegacyIsJDK(d) :
              \E j \in value.jdks : VersionBuild(j) = VersionBuild(f)

GawkCurrent(value, paths) ==
    Identities(value) = {Identity(NewJDK(d)) : d \in {e \in Range(paths) : fs[e].kind = "jdk"}}

\* a forced detect() resolving
ForcedCurrent ==
    (call' # call /\ call'.status = "resolved" /\ call'.force) =>
        IF impl = "legacy" THEN LegacyCurrent(call'.value)
        ELSE GawkCurrent(call'.value, call'.paths)

(* C9: after a completed detection, a detect() that does not force         *)
(* resolves with the records cached before, whatever happened to the       *)
(* filesystem or the requested java home since, and runs no probe; a       *)
(* forced detect() resolves with records of the filesystem as it is.       *)
C9_CachedUnlessForced == [][LegacyCached /\ GawkCached /\ ForcedCurrent]_vars

\* the legacy detect() answered from its cache, without a probe, with a
\* record of a JDK that the directory does not hold any more
C9_Witness ==
    /\ impl = "legacy" /\ Resolved /\ ~call.force /\ call.probes = 0
    /\ \E j \in call.value.jdks : j \notin LegacyIsJDK(j.path)

(* C10: for every paths value with an element that is present but not a    *)
(* string, detect() rejects with the invalid-input error and no directory  *)
(* is probed.                                                              *)
C10_NonStringRejects ==
    (impl = "gawk" /\ call.op = "detect" /\ call.nonString) =>
        /\ call.status # "resolved"
        /\ call.probes = 0

C12_NoJDKsIsNotAnError ==
    (call.op = "detect" /\ ~call.nonString) =>
        /\ call.status # "rejected"
        /\ (Resolved /\ \A d \in Dirs : fs[d].kind # "jdk") =>
               IF impl = "legacy" THEN call.value.jdks = {} ELSE call.value = <<>>

(* C13: a directory with the JVM library and the four programs whose javac *)
(* cannot be run or prints no parsable version yields no record: no record *)
(* has a null version or a null build, and the architecture of every       *)
(* record is 32bit or 64bit.                                               *)
C13_NoRecordWithoutVersion ==
    (probe.pos = "done" /\ probe.status = "record") =>
        /\ probe.target.kind \notin {"javacFails", "unparsable"}
        /\ probe.version # NullVersion
        /\ probe.build # NullBuild
        /\ probe.architecture \in {"32bit", "64bit"}

(* C14: the probe of one directory never fails: whatever the directory,    *)
(* it completes with a record or with "not found", never with a thrown     *)
(* error or a rejected promise.                                            *)
C14_ProbeNeverFails ==
    probe.pos = "done" => probe.status \in {"record", "notfound"}

(* C17: a result returned in plain-value form never aliases the cached     *)
(* collection: when the caller mutates the result detect() gave it, what a *)
(* later detect() returns from the cache does not change.                  *)
C17_SnapshotNeverAliases ==
    [][ (call.op = "detect" /\ call'.op = "mutate" /\ legacyCache # 0) =>
            legacyResults'[legacyCache] = legacyResults[legacyCache] ]_vars

\* a rescan of the session has been merged in this step
RescanMerged == session.state = "watching" /\ session'.results = session.results + 1

(* C15: a subscriber bound to a record with a given (version, build) is    *)
(* still bound after a rescan in which a record with the same (version,    *)
(* build) is present: the replacement carries the old record's subscriber  *)
(* list.                                                                   *)
C15_SubscribersTransplanted ==
    [][ RescanMerged =>
          \A i \in 1..Len(cols[session.col]) : \A j \in 1..Len(cols'[session.col]) :
             LET old == cols[session.col][i]
                 new == cols'[session.col][j]
             IN  (recs[old].version = recs'[new].version /\ recs[old].build = recs'[new].build)
                    => watchers[old] \subseteq watchers'[new] ]_vars

C18_OtherDirectoriesUntouched ==
    [][ RescanMerged =>
          \A i \in 1..Len(cols[session.col]) :
             LET old == recs[cols[session.col][i]]
             IN  old.path # session'.merged =>
                    \E j \in 1..Len(cols'[session.col]) :
                       Identity(recs'[cols'[session.col][j]]) = Identity(old) ]_vars

\* the JDKs present under the directories of the session
Present == {Identity(NewJDK(d)) : d \in {e \in Range(session.paths) : fs[e].kind = "jdk"}}

\* a session over [A, B] whose watcher of B has seen a change
ChangedB ==
    /\ session.state = "watching"
    /\ session.paths = <<OtherDir, PlatformDir>>
    /\ PlatformDir \in session.timers

\* the last 'results' event came after the rescan of B and has the JDKs
\* present under A and B
ResultsOfAB ==
    /\ PlatformDir \notin session.timers
    /\ session.scanning[PlatformDir] = 0
    /\ session.merged # ""
    /\ Identities(session.last) = Present

(* C19: in a watch session over the directories [A, B], every change to    *)
(* the contents of B made after the first 'results' event is eventually    *)
(* followed by a 'results' event whose collection is the set of the JDKs   *)
(* present under A and B at that time.                                     *)
C19_ChangeLeadsToResults == ChangedB ~> ResultsOfAB

\* the first scan, a rescan or its merge fails in this step: PATH is not
\* defined when the chain gets to processJDKs
MergeFails ==
    /\ ~pathSet
    /\ \/ session.state = "starting" /\ session'.state # "starting"
       \/ \E d \in Dirs : session'.scanning[d] < session.scanning[d]

\* the paths of the session are rejected in this step
PathsRejected == session.state = "none" /\ session'.state = "stopped"

(* C20: when the first scan, a rescan or a merge of a watch session fails, *)
(* the session emits one 'error' event and ends stopped, with every        *)
(* filesystem watch handle released: no watch handle of the session is     *)
(* registered after the error event.                                       *)
C20_ErrorStopsTheSession ==
    [][ /\ (MergeFails \/ PathsRejected) => session'.errors = session.errors + 1
        /\ session'.errors \in {session.errors, session.errors + 1}
        /\ session'.errors > 0 => (session'.state = "stopped" /\ session'.unwatchers = {})
      ]_vars

\* a rescan failed in a session that had two watchers registered
C20_Witness ==
    /\ session.errors = 1 /\ session.results >= 1
    /\ Len(session.paths) = 2
    /\ session.unwatchers = {}

\* the owner of the handle calls stop() in this step
StopCalled == session'.stopCalls = session.stopCalls + 1

(* C21: stop() on a watch handle unregisters every watch of a directory    *)
(* and every scheduled debounce timer of the session, and it is            *)
(* idempotent: a second or later stop() calls no unwatch function again    *)
(* and changes nothing.                                                    *)
C21_StopReleasesEverything ==
    [][ StopCalled =>
          /\ session'.unwatchers = {}
          /\ session'.timers = {}
          /\ session.stopCalls > 0 => session'.unwatched = session.unwatched ]_vars

\* the result of a scan that was in flight when stop() was called arrives
\* in this step: no timer was pending at the stop, and none starts after it
OrphanArrives ==
    /\ session.stopCalls > 0 /\ session.armedAtStop = {}
    /\ \E d \in Dirs : session'.scanning[d] < session.scanning[d]

(* C22: if a watch session is stopped while a probe it dispatched is still *)
(* in flight, the result of that probe is discarded when it arrives: it is *)
(* not merged into the collection and no 'results' event follows from it.  *)
C22_OrphanDiscarded ==
    [][ OrphanArrives =>
          /\ session'.results = session.results
          /\ session'.merged = session.merged
          /\ Collection(session.col)' = Collection(session.col) ]_vars

(* C30: stop() is terminal whenever it is called: once stop() has         *)
(* returned, also when that was before the initial scan completed, no     *)
(* filesystem watch of the session is registered and none is live.        *)
C30_StopIsTerminal ==
    session.stopCalls > 0 => session.unwatchers = {}

(* C23: the change events of one watched directory that arrive while the  *)
(* timer of its debounced callback is pending form one burst: an event    *)
(* only (re)starts the timer and dispatches nothing, and the rescan of    *)
(* the directory is dispatched exactly once, by the firing of the timer   *)
(* after the last event of the burst.                                     *)
C23_OneRescanPerBurst ==
    [][ \A d \in Dirs :
          /\ session'.burst[d] > session.burst[d] =>
                /\ session'.scanning[d] = session.scanning[d]
                /\ d \in session'.timers
          /\ session'.scanning[d] > session.scanning[d] =>
                /\ session'.scanning[d] = session.scanning[d] + 1
                /\ d \in session.timers /\ session.burst[d] >= 1
                /\ d \notin session'.timers /\ session'.burst[d] = 0
          /\ d \in session'.timers <=> session'.burst[d] > 0 ]_vars

\* a burst of two events of one directory was answered by one dispatch
C23_Witness ==
    /\ session.fired = 2
    /\ \E d \in Dirs : session.scanning[d] = 1 /\ session.burst[d] = 0
    /\ \A d \in Dirs : session.scanning[d] <= 1

(* C24: two detect() calls that overlap and have the same options resolve *)
(* to deep-equal results, and no directory has more than one probe in     *)
(* flight at any time: the later call waits for the pending probe.        *)
C24_OneProbePerDirectory ==
    /\ \A dir \in Dirs : InFlight(dir) <= 1
    /\ ( /\ \A i \in Callers : pair[i].status = "resolved"
         /\ pair[1].bypassCache = pair[2].bypassCache
         /\ pair[1].javaHome = pair[2].javaHome )
          => legacyResults[pair[1].col] = legacyResults[pair[2].col]

(* C25: for a fixed state of the filesystem a forced detect() gives the   *)
(* same collection whatever the order in which the probes of the          *)
(* directories complete, also when two installations have the same        *)
(* version and build.                                                     *)
C25_IndependentOfCompletionOrder ==
    ( /\ impl = "legacy" /\ Resolved /\ call.op = "detect" /\ call.force
      /\ Cardinality(JavacDirs) = 1 )
      => \A dir \in JavacDirs :
            LET jdkPaths == JdkPaths(legacyResults[call.col].home, dir)
            IN  /\ CollectJDKs({}, jdkPaths) = call.value.jdks
                /\ CollectJDKs({}, Reverse(jdkPaths)) = call.value.jdks

(* C26: only a scan that completed creates a cache entry: when a detect() *)
(* has failed, the cache does not hold the results object of that call,   *)
(* so that the next detect() scans.                                       *)
C26_FailedCallLeavesNoEntry ==
    (impl = "legacy" /\ call.op = "detect" /\ call.status = "rejected")
        => legacyCache # call.col

(* C27: resetCache() removes every cache entry: the detect() that follows *)
(* it, whatever its paths, probes every directory of its paths and        *)
(* resolves with a collection object made by this call, which is none of  *)
(* the objects that existed before.                                       *)
C27_ResetForgetsEverything ==
    [][ (impl = "gawk" /\ Pending /\ call.reset >= 0 /\ call'.status = "resolved") =>
          /\ call'.probes = Len(call.paths)
          /\ call'.col > Len(cols)
          /\ cache[PathsHash(call.paths)] = 0 ]_vars

\* a collection was cached, the cache was reset, and the next detect() for
\* the same paths, not forced, has been answered
C27_Witness ==
    /\ impl = "gawk" /\ Resolved /\ call.reset >= 1 /\ ~call.force
    /\ call.probes >= 1 /\ Len(call.value) >= 1

(* C28: the constructor of a JDK record checks its argument in a fixed     *)
(* order: a directory that is missing, empty or not a string throws        *)
(* TypeError 'Expected directory to be a valid string' before anything is  *)
(* looked up in the filesystem, and a string that names no directory       *)
(* throws Error 'Directory does not exist'.                                *)
C28_ArgumentCheckedFirst ==
    (impl # "legacy" /\ probe.pos \in {"constructed", "done"}) =>
        /\ probe.target.kind = "nonString" =>
              probe.error = TypeErrorNotAString /\ probe.checks = <<"typeof">>
        /\ probe.target.kind = "missing" =>
              probe.error = ErrorDoesNotExist /\ probe.checks = <<"typeof", "exists">>

\* new JDK() of the gawk generation has thrown its TypeError
C28_Witness ==
    /\ impl = "gawk" /\ probe.pos = "done" /\ probe.target.kind = "nonString"
    /\ probe.error = TypeErrorNotAString

(* C29: every record that a probe yields has an executables map with      *)
(* java, javac, keytool and jarsigner, and a directory without one of the *)
(* four, or without the JVM library, yields no record; where the legacy   *)
(* generation stores a record under a key, the key is the record's        *)
(* version + '_' + build.                                                 *)
C29_RecordHasAllExecutables ==
    /\ probe.status = "record" =>
          /\ probe.executables = Range(RequiredExecutables)
          /\ Range(RequiredExecutables) \subseteq Programs(probe.target)
          /\ HasLibjvm(probe.target)
    /\ probe.pos = "stored" => probe.key = <<probe.version, probe.build>>

\* the legacy generation has stored the record of an installation
C29_Witness ==
    /\ impl = "legacy" /\ probe.pos = "stored" /\ probe.target.kind = "jdk"
    /\ probe.executables = Range(RequiredExecutables)
    /\ Len(probe.key) = 2

(* C31: once stop() has returned, the handle emits no further 'results'   *)
(* event, whatever happens afterwards.                                    *)
C31_SilentAfterStop ==
    [][ session.stopCalls > 0 => session'.results = session.results ]_vars

(* C32: within one watch session at most one rescan of a directory is in  *)
(* flight at any time: a change that arrives while a rescan of the        *)
(* directory is running dispatches no second one.                         *)
C32_OneRescanInFlight ==
    \A d \in Dirs : session.scanning[d] <= 1

C34_OneWatchPerDirectory ==
    [][ (session.state = "starting" /\ session'.state = "watching") =>
          /\ session'.unwatchers = Range(session.paths)
          /\ session'.watched = Cardinality(Range(session.paths))
          /\ session'.liveAtFirst = Range(session.paths)
          /\ session.results = 0 /\ session'.results = 1 ]_vars

\* a session on two directories is active and has emitted its first event
C34_Witness ==
    /\ session.state = "watching" /\ session.stopCalls = 0
    /\ session.watched = 2 /\ session.unwatchers = Dirs
    /\ session.results = 1 /\ session.merged = ""

(* C35: a detect() call never resolves with a result whose scan is still  *)
(* running: when a call has resolved, no probe that writes into its       *)
(* result is still to start or to complete.                               *)
C35_ResolvedMeansScanned ==
    \A i, j \in Callers :
        (impl = "legacy" /\ pair[i].status = "resolved" /\ pair[j].col = pair[i].col)
            => pair[j].status \notin {"pending", "probing"}

\* the paths that the scan behind the resolved call has probed
ProbedPaths == JdkPaths(legacyResults[call.col].home, CHOOSE dir \in JavacDirs : TRUE)

(* C36: when the probe of one candidate directory fails, the scan still   *)
(* completes, and its result has the record of every other candidate      *)
(* directory that holds a valid JDK.                                      *)
C36_BadDirectoryDoesNotAbort ==
    ( /\ impl = "legacy" /\ Resolved /\ call.op = "detect" /\ call.probes > 0
      /\ Cardinality(JavacDirs) = 1
      /\ \E p \in Range(ProbedPaths) : LegacyIsJDK(p) = {} )
      => \A p \in Range(ProbedPaths) : LegacyIsJDK(p) \subseteq call.value.jdks

\* the java home holds no JDK, the directory of javac holds one, and the
\* scan of both has resolved with that one
C36_Witness ==
    /\ impl = "legacy" /\ Resolved /\ call.op = "detect" /\ call.probes = 2
    /\ Cardinality(JavacDirs) = 1
    /\ LegacyIsJDK(ProbedPaths[1]) = {}
    /\ Cardinality(call.value.jdks) = 1

(* C37: watch(opts) leaves the options object of its caller as it was, so *)
(* that a detect(opts) with the same object afterwards is a one-shot      *)
(* detection and registers no filesystem watch.                           *)
C37_OptionsUntouched ==
    [][ /\ caller'.calls = Append(caller.calls, "watch") => caller'.opts = caller.opts
        /\ caller'.calls = Append(caller.calls, "detect") =>
              caller'.watches = caller.watches ]_vars

\* the subkeys named by a CurrentVersion whose JavaHome can be read
DefaultSubkeys ==
    {k \in Subkeys : /\ registry.listed[k[1]] /\ k[2] = registry.current[k[1]]
                     /\ registry.home[k] # ""}

(* C38: the registry scan never fails and does not depend on the order in *)
(* which the lookups complete: a lookup that fails contributes no path    *)
(* and the others are returned, and the defaultPath is the JavaHome of a  *)
(* subkey named by CurrentVersion whenever such a subkey has a JavaHome,  *)
(* also when another subkey has the same JavaHome.                        *)
C38_RegistryScanOrderIndependent ==
    (impl = "engine" /\ registry.status = "done") =>
        /\ Range(registry.paths)
              = {registry.home[k] : k \in {j \in Subkeys : registry.listed[j[1]]}} \ {""}
        /\ DefaultSubkeys # {}
              => registry.defaultPath \in {registry.home[k] : k \in DefaultSubkeys}

====
